---- MODULE Spec2Model ----
(***************************************************************************)
(* Contact-management REST service: the authentication workflow            *)
(* (src/src/routes/auth.py) and the ownership-scoped contact repository    *)
(* (src/src/repository/contacts.py) as a state machine over the persisted  *)
(* tables `users` and `contacts`.                                          *)
(*                                                                         *)
(* Every route handler is split at its database accesses: the step that    *)
(* reads the user row and the step that writes it are separate actions,    *)
(* because the handlers take no lock and open no explicit transaction      *)
(* around the two.  Requests in flight live in `reqs`.                     *)
(***************************************************************************)
EXTENDS Integers, Sequences, FiniteSets, TLC

VARIABLES users, clock, reqs, tasks, issued, resp, rotated,
          contacts, next_id, history

vars == <<users, clock, reqs, tasks, issued, resp, rotated,
          contacts, next_id, history>>

contactVars == <<contacts, next_id>>

----------------------------------------------------------------------------
(* Bounds of the model *)

\* the wall clock runs over 0..MaxClock (one tick = the resolution of the
\* issued-at / expiry claims of a token)
MaxClock == 1
\* number of requests that can be in flight at once
MaxInflight == 2
\* number of distinct refresh and confirmation tokens ever handed out
MaxIssued == 3
\* number of contacts ever created
MaxContacts == 2

Slots == 1..MaxInflight
Emails == {"a@x", "b@x"}
Usernames == {"alice"}
\* passwords chosen at signup, and passwords tried at login
SignupPasswords == {"pw1"}
Passwords == {"pw1", "pw2"}

----------------------------------------------------------------------------
(* Token Service (src/services/auth.py is not part of the sources; modelled *)
(* from section 4.1 of the specification)                                   *)

AccessLifetime == 1
EmailLifetime == 2
RefreshLifetime == 3

\* a token is its claims (scope, sub, iat; the expiry is iat + lifetime) and
\* whether its signature is the one the service's key gives for them
None == [scope |-> "none", sub |-> "none", iat |-> 0, sig |-> TRUE]
Garbage == [scope |-> "garbage", sub |-> "none", iat |-> 0, sig |-> FALSE]

\* the claims of a token of the service under a signature of another key
Forged(token) == [token EXCEPT !.sig = FALSE]

Lifetime(scope) ==
    CASE scope = "access_token" -> AccessLifetime
      [] scope = "refresh_token" -> RefreshLifetime
      [] scope = "email_token" -> EmailLifetime
      [] OTHER -> 0

\* issue(kind, subject, now): subject, issued-at, expiry (= iat + lifetime)
\* and kind, signed; the same arguments give the same token
issue(kind, subject, now) ==
    [scope |-> kind, sub |-> subject, iat |-> now, sig |-> TRUE]

create_access_token(subject, now) == issue("access_token", subject, now)
create_refresh_token(subject, now) == issue("refresh_token", subject, now)
create_email_token(subject, now) == issue("email_token", subject, now)

\* verify(kind, token, now): the subject, or "" when the token is malformed,
\* badly signed, of another kind, or expired
verify(kind, token, now) ==
    IF token.sig /\ token.scope = kind /\ now < token.iat + Lifetime(kind)
    THEN token.sub
    ELSE ""

decode_refresh_token(token, now) == verify("refresh_token", token, now)
get_email_from_token(token, now) == verify("email_token", token, now)

get_password_hash(plain) == <<"hash", plain>>
verify_password(plain, hashed) == hashed = <<"hash", plain>>

----------------------------------------------------------------------------
(* Credential Store *)

NoUser == [id |-> 0, username |-> "", email |-> "", password |-> <<>>,
           confirmed |-> FALSE, refresh_token |-> None]

\* variant: the users table without the unique index on email
EmailUnique_off(rows, email) == TRUE

\* User.email: Column(String(250), nullable=False, unique=True)
EmailUnique(rows, email) == \A i \in DOMAIN rows : rows[i].email # email

\* the first row with that email, or NoUser
get_user_by_email(email) ==
    LET idx == {i \in DOMAIN users : users[i].email = email}
    IN IF idx = {} THEN NoUser
       ELSE users[CHOOSE i \in idx : \A j \in idx : i <= j]

\* variant: the confirmed column defaulting to True
NewUser_confirmed(username, email, hashed) ==
    [id |-> Len(users) + 1, username |-> username, email |-> email,
     password |-> hashed, confirmed |-> TRUE, refresh_token |-> None]

\* a new row: confirmed defaults to False, refresh_token to NULL
NewUser(username, email, hashed) ==
    [id |-> Len(users) + 1, username |-> username, email |-> email,
     password |-> hashed, confirmed |-> FALSE, refresh_token |-> None]

\* UPDATE users SET refresh_token = token WHERE id = uid
update_token(uid, token) ==
    [users EXCEPT ![uid].refresh_token = token]

\* repository confirmed_email(email): looks the user up again and sets the flag
set_confirmed(email) ==
    LET u == get_user_by_email(email)
    IN IF u.id = 0 THEN users ELSE [users EXCEPT ![u.id].confirmed = TRUE]

----------------------------------------------------------------------------
(* Requests and responses *)

Idle == [op |-> "idle", email |-> "", username |-> "", password |-> "",
         token |-> None, uid |-> 0, snap |-> None, peer |-> FALSE,
         late |-> FALSE, sup |-> FALSE, out |-> FALSE]

NoResp == [op |-> "none", status |-> 0, detail |-> "", email |-> "",
           access |-> None, refresh |-> None, presented |-> None,
           snap |-> None, peer |-> FALSE, late |-> FALSE, sup |-> FALSE,
           out |-> FALSE]

\* History of the sessions, kept by the specifications of the sessions only
\* (`on`): the refresh tokens handed to a user before a later one was stored
\* for that user (superseded), the stored tokens wiped by a request that
\* presented a superseded token, until the user's next login (revoked), and
\* the token presented by a refresh request that failed verification (in
\* resp.presented)
NoHistory == [on |-> FALSE, superseded |-> {}, revoked |-> {}]

\* the refresh tokens handed to the user so far
TokensOf(email) ==
    {t \in issued : t.scope = "refresh_token" /\ t.sub = email}

Response(op, status, detail, email) ==
    [NoResp EXCEPT !.op = op, !.status = status, !.detail = detail,
                   !.email = email]

\* the tokens a client can present: what the service has handed out (refresh
\* and e-mail tokens in `issued`, the access token that came with each
\* refresh token), a refresh token signed with another key, or a string that
\* is no token at all
AccessIssued ==
    {create_access_token(t.sub, t.iat) : t \in {x \in issued : x.scope = "refresh_token"}}

ForgedIssued ==
    {Forged(t) : t \in {x \in issued : x.scope = "refresh_token"}}

Presentable == issued \cup AccessIssued \cup ForgedIssued \cup {Garbage}

\* the bound on the tokens handed out
CanIssue(token) == Cardinality(issued \cup {token}) <= MaxIssued

----------------------------------------------------------------------------
Init ==
    /\ users = <<>>
    /\ clock = 0
    /\ reqs = [s \in Slots |-> Idle]
    /\ tasks = {}
    /\ issued = {}
    /\ resp = NoResp
    /\ rotated = {}
    /\ contacts = {}
    /\ next_id = 1
    /\ history = NoHistory

Tick ==
    /\ clock < MaxClock
    /\ clock' = clock + 1
    /\ resp' = NoResp
    /\ UNCHANGED <<users, reqs, tasks, issued, rotated, contactVars, history>>

----------------------------------------------------------------------------
(* POST /auth/signup *)

\* lines 41-43: look the e-mail up, 409 when a user has it
signup_read(s, username, email, password) ==
    /\ reqs[s].op = "idle"
    /\ LET exist_user == get_user_by_email(email)
       IN IF exist_user.id # 0
          THEN /\ resp' = Response("signup", 409, "Account already exists", email)
               /\ reqs' = reqs
          ELSE /\ resp' = NoResp
               /\ reqs' = [reqs EXCEPT ![s] =
                              [Idle EXCEPT !.op = "signup", !.email = email,
                                           !.username = username,
                                           !.password = password]]
    /\ UNCHANGED <<users, clock, tasks, issued, rotated, contactVars, history>>

\* variant: the e-mail is not scheduled
add_task_dropped(queue, email, username) == queue

\* background_tasks.add_task(send_email, email, username, base_url): the send
\* is queued to run after the response
add_task(queue, email, username) ==
    queue \cup {[email |-> email, username |-> username]}

\* lines 44-47: hash, insert (the unique index on email rejects a duplicate
\* row, which surfaces as an unhandled database error), schedule the e-mail
signup_write(s) ==
    /\ reqs[s].op = "signup"
    /\ LET r == reqs[s]
       IN IF EmailUnique(users, r.email)
          THEN /\ users' = Append(users,
                              NewUser(r.username, r.email, get_password_hash(r.password)))
               /\ tasks' = add_task(tasks, r.email, r.username)
               /\ resp' = Response("signup", 201, "User successfully created", r.email)
          ELSE /\ users' = users
               /\ tasks' = tasks
               /\ resp' = Response("signup", 500, "IntegrityError", r.email)
    /\ reqs' = [reqs EXCEPT ![s] = Idle]
    /\ UNCHANGED <<clock, issued, rotated, contactVars, history>>

\* how a run of send_email ends: the message is sent, the mail server cannot
\* be reached (fastapi_mail ConnectionErrors), or another exception is raised
\* while the token or the message is made or sent (a recipient that is no
\* e-mail address, a template that does not render, a signing error)
SendOutcomes == {"sent", "ConnectionErrors", "ValidationError"}

\* email.py line 67: except ConnectionErrors
caught(err) == err = "ConnectionErrors"

\* services/email.py send_email (lines 50-68), run as a background task after
\* the response of the request that scheduled it: creates the confirmation
\* token and sends it; an exception is printed when the except clause
\* catches it, and leaves the task otherwise
send_email(task, outcome) ==
    /\ task \in tasks
    /\ outcome = "sent" => CanIssue(create_email_token(task.email, clock))
    /\ tasks' = tasks \ {task}
    /\ issued' = IF outcome = "sent"
                 THEN issued \cup {create_email_token(task.email, clock)}
                 ELSE issued
    /\ resp' = [NoResp EXCEPT !.op = "send_email",
                              !.detail = IF outcome = "sent" THEN "sent"
                                         ELSE IF caught(outcome) THEN "logged"
                                         ELSE "raised"]
    /\ UNCHANGED <<users, clock, reqs, rotated, contactVars, history>>

----------------------------------------------------------------------------
(* POST /auth/login *)

\* variant: the test of line 71 without its `not`
login_check_inverted(user, password) ==
    IF user.id = 0 THEN "Invalid email"
    ELSE IF user.confirmed THEN "Email not confirmed"
    ELSE IF ~verify_password(password, user.password) THEN "Invalid password"
    ELSE "ok"

\* variant: the check of line 71 left out
login_check_noconfirm(user, password) ==
    IF user.id = 0 THEN "Invalid email"
    ELSE IF ~verify_password(password, user.password) THEN "Invalid password"
    ELSE "ok"

\* lines 69-74: the three checks, in order
login_check(user, password) ==
    IF user.id = 0 THEN "Invalid email"
    ELSE IF ~user.confirmed THEN "Email not confirmed"
    ELSE IF ~verify_password(password, user.password) THEN "Invalid password"
    ELSE "ok"

\* lines 68-78: the checks, then the pair is issued and the refresh token
\* stored.  The row is written by its id and the checks read only fields
\* that never change back (confirmed) or never change (password), so the
\* read and the write are taken as one step, at the time of the write.
login(email, password) ==
    /\ CanIssue(create_refresh_token(email, clock))
    /\ LET user == get_user_by_email(email)
           outcome == login_check(user, password)
           access_token == create_access_token(user.email, clock)
           refresh_token == create_refresh_token(user.email, clock)
       IN IF outcome # "ok"
          THEN /\ resp' = Response("login", 401, outcome, email)
               /\ users' = users
               /\ issued' = issued
               /\ history' = history
          ELSE /\ users' = update_token(user.id, refresh_token)
               /\ issued' = issued \cup {refresh_token}
               /\ resp' = [Response("login", 200, "bearer", email) EXCEPT
                              !.access = access_token, !.refresh = refresh_token]
               /\ history' =
                     IF history.on
                     THEN [history EXCEPT
                             !.superseded = @ \cup TokensOf(email),
                             !.revoked = {t \in @ : t.sub # email}]
                     ELSE history
    /\ UNCHANGED <<clock, reqs, tasks, rotated, contactVars>>

----------------------------------------------------------------------------
(* GET /auth/refresh_token *)

\* variant: line 104 left out, the mismatch only answered with 401
refresh_outcome_norevoke(snap, token, email, now) ==
    IF snap # token
    THEN [status |-> 401, detail |-> "Invalid refresh token", stored |-> snap,
          access |-> None, refresh |-> None]
    ELSE [status |-> 200, detail |-> "bearer",
          stored |-> create_refresh_token(email, now),
          access |-> create_access_token(email, now),
          refresh |-> create_refresh_token(email, now)]

\* lines 103-109 as a function of what the handler holds: the stored token it
\* read (snap), the presented token, the subject and the time of issue
refresh_outcome(snap, token, email, now) ==
    IF snap # token
    THEN [status |-> 401, detail |-> "Invalid refresh token", stored |-> None,
          access |-> None, refresh |-> None]
    ELSE [status |-> 200, detail |-> "bearer",
          stored |-> create_refresh_token(email, now),
          access |-> create_access_token(email, now),
          refresh |-> create_refresh_token(email, now)]

\* variant: the subject is read from the claims of the token without
\* verifying it, and the user of that subject is loaded
refresh_token_read_unverified(s, token) ==
    /\ reqs[s].op = "idle"
    /\ token \in Presentable
    /\ LET email == token.sub
           user == get_user_by_email(email)
       IN IF user.id = 0
          THEN /\ resp' = [Response("refresh", 500, "AttributeError", email)
                              EXCEPT !.presented = token]
               /\ reqs' = reqs
          ELSE /\ resp' = NoResp
               /\ reqs' = [reqs EXCEPT ![s] =
                              [Idle EXCEPT !.op = "refresh", !.email = email,
                                           !.token = token, !.uid = user.id,
                                           !.snap = user.refresh_token,
                                           !.late = (token \in rotated),
                                           !.sup = (token \in history.superseded),
                                           !.out = (token \in history.revoked)]]
    /\ UNCHANGED <<users, clock, tasks, issued, rotated, contactVars, history>>

\* lines 100-102: decode the token (401 when it does not verify as a refresh
\* token), load the user of its subject
refresh_token_read(s, token) ==
    /\ reqs[s].op = "idle"
    /\ token \in Presentable
    /\ LET email == decode_refresh_token(token, clock)
           user == get_user_by_email(email)
       IN IF email = ""
          THEN /\ resp' = [Response("refresh", 401, "Could not validate credentials", "")
                              EXCEPT !.presented =
                                        IF history.on THEN token ELSE None]
               /\ reqs' = reqs
          ELSE IF user.id = 0
          THEN /\ resp' = [Response("refresh", 500, "AttributeError", email)
                              EXCEPT !.presented = token]
               /\ reqs' = reqs
          ELSE /\ resp' = NoResp
               /\ reqs' = [reqs EXCEPT ![s] =
                              [Idle EXCEPT !.op = "refresh", !.email = email,
                                           !.token = token, !.uid = user.id,
                                           !.snap = user.refresh_token,
                                           !.late = (token \in rotated),
                                           !.sup = (token \in history.superseded),
                                           !.out = (token \in history.revoked)]]
    /\ UNCHANGED <<users, clock, tasks, issued, rotated, contactVars, history>>

\* lines 103-109: compare with the token read, then revoke and fail, or issue
\* a new pair and store the new refresh token
refresh_token_write(s) ==
    /\ reqs[s].op = "refresh"
    /\ CanIssue(create_refresh_token(reqs[s].email, clock))
    /\ LET r == reqs[s]
           out == refresh_outcome(r.snap, r.token, r.email, clock)
           ok == out.status = 200
       IN /\ users' = update_token(r.uid, out.stored)
          /\ issued' = IF ok THEN issued \cup {out.refresh} ELSE issued
          /\ rotated' = IF ok THEN rotated \cup {r.token} ELSE rotated
          /\ resp' = [Response("refresh", out.status, out.detail, r.email) EXCEPT
                         !.access = out.access, !.refresh = out.refresh,
                         !.presented = r.token, !.snap = r.snap,
                         !.peer = r.peer, !.late = r.late,
                         !.sup = r.sup, !.out = r.out]
          /\ history' =
                IF ~history.on THEN history
                ELSE IF ok
                THEN [history EXCEPT !.superseded = @ \cup TokensOf(r.email)]
                ELSE IF r.sup
                THEN [history EXCEPT
                        !.revoked = @ \cup ({users[r.uid].refresh_token} \ {None})]
                ELSE history
          \* history: the requests in flight that read and matched the same
          \* stored token as a request that has just succeeded
          /\ reqs' = [t \in Slots |->
                        IF t = s THEN Idle
                        ELSE IF /\ ok
                                /\ reqs[t].op = "refresh"
                                /\ reqs[t].uid = r.uid
                                /\ reqs[t].token = r.token
                                /\ reqs[t].snap = r.snap
                             THEN [reqs[t] EXCEPT !.peer = TRUE]
                             ELSE reqs[t]]
    /\ UNCHANGED <<clock, tasks, contactVars>>

----------------------------------------------------------------------------
(* GET /auth/confirmed_email/{token} *)

\* variant: the check of line 134 left out
confirmed_email_check_again(user) ==
    IF user.id = 0 THEN "Verification error"
    ELSE "confirm"

\* lines 132-135: what the handler answers before it writes anything
confirmed_email_check(user) ==
    IF user.id = 0 THEN "Verification error"
    ELSE IF user.confirmed THEN "Your email is already confirmed"
    ELSE "confirm"

\* lines 130-137.  The repository call of line 136 looks the user up again
\* and only ever sets the flag, so the handler is taken as one step.
confirmed_email(token) ==
    /\ token \in Presentable
    /\ LET email == get_email_from_token(token, clock)
           user == get_user_by_email(email)
           outcome == confirmed_email_check(user)
       IN IF email = ""
          THEN /\ resp' = Response("confirm", 422, "Invalid token for email verification", "")
               /\ users' = users
          ELSE IF outcome = "Verification error"
          THEN /\ resp' = Response("confirm", 400, outcome, email)
               /\ users' = users
          ELSE IF outcome = "Your email is already confirmed"
          THEN /\ resp' = Response("confirm", 200, outcome, email)
               /\ users' = users
          ELSE /\ resp' = Response("confirm", 200, "Email confirmed", email)
               /\ users' = set_confirmed(email)
    /\ UNCHANGED <<clock, reqs, tasks, issued, rotated, contactVars, history>>

----------------------------------------------------------------------------
(* POST /auth/request_email *)

\* lines 161-166: `user.confirmed` is read before `if user:`, so an e-mail
\* of no user raises on None
request_email(email) ==
    /\ LET user == get_user_by_email(email)
       IN IF user.id = 0
          THEN /\ resp' = Response("request_email", 500, "AttributeError", email)
               /\ tasks' = tasks
          ELSE IF user.confirmed
          THEN /\ resp' = Response("request_email", 200,
                                   "Your email is already confirmed", email)
               /\ tasks' = tasks
          ELSE /\ resp' = Response("request_email", 200,
                                   "Check your email for confirmation.", email)
               /\ tasks' = add_task(tasks, user.email, user.username)
    /\ UNCHANGED <<users, clock, reqs, issued, rotated, contactVars, history>>

----------------------------------------------------------------------------
(* Contact Store and Contact Query Engine (src/src/repository/contacts.py) *)

NoDate == [year |-> 0, month |-> 0, day |-> 0]
Date(y, m, d) == [year |-> y, month |-> m, day |-> d]

IsLeap(y) == (y % 4 = 0 /\ y % 100 # 0) \/ y % 400 = 0

DaysInMonth(y, m) ==
    IF m = 2 THEN (IF IsLeap(y) THEN 29 ELSE 28)
    ELSE IF m \in {4, 6, 9, 11} THEN 30
    ELSE 31

\* date + timedelta(days=1)
NextDay(dt) ==
    IF dt.day < DaysInMonth(dt.year, dt.month) THEN Date(dt.year, dt.month, dt.day + 1)
    ELSE IF dt.month < 12 THEN Date(dt.year, dt.month + 1, 1)
    ELSE Date(dt.year + 1, 1, 1)

RECURSIVE AddDays(_, _)
\* date + timedelta(days=n)
AddDays(dt, n) == IF n = 0 THEN dt ELSE AddDays(NextDay(dt), n - 1)

\* schemas.py ContactCreate: the request bodies of the model; "None" is
\* Python's None (surname, email, birthday and additional_data are optional)
ContactBodies ==
    {[name |-> "Ann", surname |-> "Lee", email |-> "c@x", phone |-> "111",
      birthday |-> Date(1990, 6, 30), additional_data |-> "None"],
     [name |-> "Bob", surname |-> "None", email |-> "None", phone |-> "222",
      birthday |-> NoDate, additional_data |-> "note"]}

\* the values a search can filter by: those of the bodies, no filter ("None",
\* the default of the query parameter), and for the name the empty string of
\* a request for /contacts/?name=
NameFilters == {b.name : b \in ContactBodies} \cup {"None", ""}
SurnameFilters == {b.surname : b \in ContactBodies} \cup {"None"}
EmailFilters == {b.email : b \in ContactBodies} \cup {"None"}
PhoneFilters == {b.phone : b \in ContactBodies} \cup {"None"}
BirthdayFilters == {b.birthday : b \in ContactBodies} \cup {NoDate}

\* the searches the clients of the model make: no filter, each filter alone,
\* the empty name, two filters no contact has together, and all five
Searches ==
    {<<"None", "None", "None", "None", NoDate>>,
     <<"Ann", "None", "None", "None", NoDate>>,
     <<"", "None", "None", "None", NoDate>>,
     <<"None", "Lee", "None", "None", NoDate>>,
     <<"None", "None", "c@x", "None", NoDate>>,
     <<"None", "None", "None", "222", NoDate>>,
     <<"None", "None", "None", "None", Date(1990, 6, 30)>>,
     <<"Ann", "None", "None", "222", NoDate>>,
     <<"Ann", "Lee", "c@x", "111", Date(1990, 6, 30)>>}

\* the days on which the birthdays route is called: a window inside a month,
\* and windows over the end of a 30-day month, of February in a year that is
\* not leap and in one that is, of December, and of a 31-day month
Todays ==
    {Date(2024, 6, 1), Date(2024, 6, 28), Date(2023, 2, 25),
     Date(2024, 2, 25), Date(2024, 12, 28), Date(2024, 1, 25)}

\* routes/contacts.py line 38: timedelta(days=7)
WindowDays == 7

\* the birthdays of the contacts of the birthday queries
BirthdayDates ==
    {Date(1990, 6, 5), Date(1985, 6, 10), Date(1990, 6, 28), Date(1990, 6, 30),
     Date(2001, 6, 30), Date(1977, 7, 3), Date(1980, 7, 5), Date(1980, 7, 10),
     Date(1999, 2, 28), Date(2000, 2, 29), Date(1999, 3, 1), Date(1999, 3, 4),
     Date(1995, 12, 31), Date(1995, 1, 1), Date(1996, 1, 4), Date(1996, 1, 5),
     Date(1970, 2, 1), NoDate}

\* the dates get_birthdays is called with
WindowDates == Todays \cup {AddDays(t, WindowDays) : t \in Todays}

FieldNames == {"name", "surname", "email", "phone", "birthday", "additional_data"}

\* schemas.py ContactUpdate(ContactCreate): name, phone and birthday have no
\* default, so a body without them does not validate
RequiredFields == {"name", "phone", "birthday"}

\* the sets of fields the update bodies of the model set
SuppliedSets ==
    {{"phone"}, RequiredFields, FieldNames}

\* the body parses as a ContactUpdate: every field without a default is set
validates(supplied) == RequiredFields \subseteq supplied

NoContact == [id |-> 0, name |-> "None", surname |-> "None", email |-> "None",
              phone |-> "None", birthday |-> NoDate, additional_data |-> "None",
              users |-> {}, creator |-> 0]

\* variant: the lookup by id alone
get_contact_any(contact_id, user) ==
    LET found == {c \in contacts : c.id = contact_id}
    IN IF found = {} THEN NoContact ELSE CHOOSE c \in found : TRUE

\* lines 46-48: Contact.id == contact_id AND Contact.users.any(id=user.id)
get_contact(contact_id, user) ==
    LET found == {c \in contacts : c.id = contact_id /\ user \in c.users}
    IN IF found = {} THEN NoContact ELSE CHOOSE c \in found : TRUE

\* lines 71-72: setattr for every field the body sets (exclude_unset)
merge(db_contact, body, supplied) ==
    [f \in DOMAIN db_contact |->
        IF f \in supplied THEN body[f] ELSE db_contact[f]]

\* variant: the filter of lines 122-125 whatever the two days are
birthday_match_onebranch(c, start_date, end_date) ==
    /\ c.birthday # NoDate
    /\ c.birthday.month = start_date.month
    /\ c.birthday.day >= start_date.day
    /\ c.birthday.day <= end_date.day

\* lines 117-130: extract of a NULL birthday is NULL and matches nothing
birthday_match(c, start_date, end_date) ==
    /\ c.birthday # NoDate
    /\ IF end_date.day > start_date.day
       THEN /\ c.birthday.month = start_date.month
            /\ c.birthday.day >= start_date.day
            /\ c.birthday.day <= end_date.day
       ELSE \/ (c.birthday.month = start_date.month /\ c.birthday.day >= start_date.day)
            \/ (c.birthday.month = end_date.month /\ c.birthday.day <= end_date.day)

get_birthdays(start_date, end_date, user) ==
    {c \in contacts : user \in c.users /\ birthday_match(c, start_date, end_date)}

\* a filter that Python takes as false (None, "") adds no condition
Falsy(v) == v = "None" \/ v = ""

\* variant: the search without the filter of line 160
get_contacts_unscoped(name, surname, email, phone, birthday, user) ==
    {c \in contacts :
        /\ (Falsy(name) \/ c.name = name)
        /\ (Falsy(surname) \/ c.surname = surname)
        /\ (Falsy(email) \/ c.email = email)
        /\ (Falsy(phone) \/ c.phone = phone)
        /\ (birthday = NoDate \/ c.birthday = birthday)}

\* lines 160-177
get_contacts(name, surname, email, phone, birthday, user) ==
    {c \in contacts :
        /\ user \in c.users
        /\ (Falsy(name) \/ c.name = name)
        /\ (Falsy(surname) \/ c.surname = surname)
        /\ (Falsy(email) \/ c.email = email)
        /\ (Falsy(phone) \/ c.phone = phone)
        /\ (birthday = NoDate \/ c.birthday = birthday)}

Ids(cs) == {c.id : c \in cs}

\* response of a contact route: the ids of the contacts it returns
CResponse(op, user, contact_id, status, result) ==
    [op |-> op, user |-> user, contact_id |-> contact_id, status |-> status,
     result |-> result]

UserIds == DOMAIN users

\* POST /contacts/ (repository lines 24-29)
create_contact(body, user) ==
    /\ next_id <= MaxContacts
    /\ contacts' = contacts \cup
          {[id |-> next_id, name |-> body.name, surname |-> body.surname,
            email |-> body.email, phone |-> body.phone,
            birthday |-> body.birthday,
            additional_data |-> body.additional_data,
            users |-> {user}, creator |-> user]}
    /\ next_id' = next_id + 1
    /\ resp' = CResponse("create_contact", user, next_id, 200, {next_id})
    /\ UNCHANGED <<users, clock, reqs, tasks, issued, rotated, history>>

\* GET /contacts/{contact_id} (routes/contacts.py lines 124-127)
read_contact(contact_id, user) ==
    /\ LET contact == get_contact(contact_id, user)
       IN resp' = IF contact.id = 0
                  THEN CResponse("get_contact", user, contact_id, 404, {})
                  ELSE CResponse("get_contact", user, contact_id, 200, {contact.id})
    /\ UNCHANGED <<users, clock, reqs, tasks, issued, rotated, contactVars, history>>

\* PUT /contacts/{contact_id} (repository lines 68-76, route lines 156-159);
\* a body that is no ContactUpdate is answered 422 before the handler runs
update_contact(contact_id, body, supplied, user) ==
    /\ LET db_contact == get_contact(contact_id, user)
       IN IF ~validates(supplied)
          THEN /\ contacts' = contacts
               /\ resp' = CResponse("update_contact", user, contact_id, 422, {})
          ELSE IF db_contact.id = 0
          THEN /\ contacts' = contacts
               /\ resp' = CResponse("update_contact", user, contact_id, 404, {})
          ELSE /\ contacts' = (contacts \ {db_contact})
                                \cup {merge(db_contact, body, supplied)}
               /\ resp' = CResponse("update_contact", user, contact_id, 200, {contact_id})
    /\ UNCHANGED <<users, clock, reqs, tasks, issued, rotated, next_id, history>>

\* variant: only the caller is taken out of the owners of the row
delete_row_edge(db_contact, user) ==
    (contacts \ {db_contact})
        \cup {[db_contact EXCEPT !.users = db_contact.users \ {user}]}

\* lines 96-97: db.delete(db_contact); db.commit() removes the row of the
\* contact (and with it its rows of user_m2m_contact)
delete_row(db_contact, user) == contacts \ {db_contact}

\* DELETE /contacts/{contact_id} (repository lines 93-98, route lines 185-188):
\* the answer is the message, no contact
delete_contact(contact_id, user) ==
    /\ LET db_contact == get_contact(contact_id, user)
       IN IF db_contact.id = 0
          THEN /\ contacts' = contacts
               /\ resp' = CResponse("delete_contact", user, contact_id, 404, {})
          ELSE /\ contacts' = delete_row(db_contact, user)
               /\ resp' = CResponse("delete_contact", user, contact_id, 200, {})
    /\ UNCHANGED <<users, clock, reqs, tasks, issued, rotated, next_id, history>>

\* answer of a birthday query, with the window it was asked for
BResponse(user, start_date, end_date, result) ==
    [op |-> "get_birthdays", user |-> user, contact_id |-> 0, status |-> 200,
     result |-> result, start_date |-> start_date, end_date |-> end_date]

\* GET /contacts/birthdays (routes/contacts.py lines 37-40)
read_birthdays(today, user) ==
    /\ LET end_date == AddDays(today, WindowDays)
       IN resp' = BResponse(user, today, end_date,
                            Ids(get_birthdays(today, end_date, user)))
    /\ UNCHANGED <<users, clock, reqs, tasks, issued, rotated, contactVars, history>>

\* repository get_birthdays (lines 117-132) called with any two dates
call_get_birthdays(start_date, end_date, user) ==
    /\ resp' = BResponse(user, start_date, end_date,
                         Ids(get_birthdays(start_date, end_date, user)))
    /\ UNCHANGED <<users, clock, reqs, tasks, issued, rotated, contactVars, history>>

\* GET /contacts/ (routes/contacts.py lines 73-74)
read_contacts(name, surname, email, phone, birthday, user) ==
    /\ resp' = CResponse("get_contacts", user, 0, 200,
                         Ids(get_contacts(name, surname, email, phone, birthday, user)))
    /\ UNCHANGED <<users, clock, reqs, tasks, issued, rotated, contactVars, history>>

\* contact ids a request can name: one beyond those ever created included
ContactIds == 1..(MaxContacts + 1)

ContactNext ==
    \/ \E body \in ContactBodies, u \in UserIds : create_contact(body, u)
    \/ \E id \in ContactIds, u \in UserIds : read_contact(id, u)
    \/ \E id \in ContactIds, body \in ContactBodies,
          supplied \in SuppliedSets, u \in UserIds :
          update_contact(id, body, supplied, u)
    \/ \E id \in ContactIds, u \in UserIds : delete_contact(id, u)
    \/ \E today \in {Date(2024, 6, 1), Date(2024, 6, 28)}, u \in UserIds :
          read_birthdays(today, u)
    \/ \E q \in Searches, u \in UserIds :
          read_contacts(q[1], q[2], q[3], q[4], q[5], u)

\* two users who have signed up, confirmed their e-mail and hold a session
TwoUsers ==
    <<[id |-> 1, username |-> "alice", email |-> "a@x",
       password |-> get_password_hash("pw1"), confirmed |-> TRUE,
       refresh_token |-> None],
      [id |-> 2, username |-> "alice", email |-> "b@x",
       password |-> get_password_hash("pw1"), confirmed |-> TRUE,
       refresh_token |-> None]>>

ContactInit ==
    /\ users = TwoUsers
    /\ clock = 0
    /\ reqs = [s \in Slots |-> Idle]
    /\ tasks = {}
    /\ issued = {}
    /\ resp = NoResp
    /\ rotated = {}
    /\ contacts = {}
    /\ next_id = 1
    /\ history = NoHistory

----------------------------------------------------------------------------
AuthNext ==
    \/ Tick
    \/ \E s \in Slots, u \in Usernames, e \in Emails, p \in SignupPasswords :
          signup_read(s, u, e, p)
    \/ \E s \in Slots : signup_write(s)
    \/ \E t \in tasks, o \in SendOutcomes : send_email(t, o)
    \/ \E e \in Emails, p \in Passwords : login(e, p)
    \/ \E s \in Slots, t \in Presentable : refresh_token_read(s, t)
    \/ \E s \in Slots : refresh_token_write(s)
    \/ \E t \in Presentable : confirmed_email(t)
    \/ \E e \in Emails : request_email(e)

Spec == Init /\ [][AuthNext]_vars

ContactSpec == ContactInit /\ [][ContactNext]_vars

\* the sessions of two confirmed users: logins and refreshes, with the
\* history of the tokens kept
SessionInit ==
    /\ users = TwoUsers
    /\ clock = 0
    /\ reqs = [s \in Slots |-> Idle]
    /\ tasks = {}
    /\ issued = {}
    /\ resp = NoResp
    /\ rotated = {}
    /\ contacts = {}
    /\ next_id = 1
    /\ history = [NoHistory EXCEPT !.on = TRUE]

SessionNext ==
    \/ Tick
    \/ \E e \in Emails, p \in Passwords : login(e, p)
    \/ \E s \in Slots, t \in Presentable : refresh_token_read(s, t)
    \/ \E s \in Slots : refresh_token_write(s)

SessionSpec == SessionInit /\ [][SessionNext]_vars

\* a refresh token of the first user from a login RefreshLifetime ago: it has
\* expired when the clock starts
OldToken == create_refresh_token("a@x", 0 - RefreshLifetime)

\* the sessions of two confirmed users, the first of whom logged in long ago:
\* the old token is still in the first user's row, or has been wiped
RefreshInit ==
    /\ \E stored \in {None, OldToken} :
          users = [TwoUsers EXCEPT ![1].refresh_token = stored]
    /\ clock = 0
    /\ reqs = [s \in Slots |-> Idle]
    /\ tasks = {}
    /\ issued = {OldToken}
    /\ resp = NoResp
    /\ rotated = {}
    /\ contacts = {}
    /\ next_id = 1
    /\ history = [NoHistory EXCEPT !.on = TRUE]

RefreshSpec == RefreshInit /\ [][SessionNext]_vars

\* a contact of the birthday queries
BirthdayContact(id, birthday, user) ==
    [id |-> id, name |-> "Ann", surname |-> "None", email |-> "None",
     phone |-> "111", birthday |-> birthday, additional_data |-> "None",
     users |-> {user}, creator |-> user]

\* the two users, a contact of user 1 with any of the birthdays and a
\* contact of user 2
BirthdayInit ==
    /\ users = TwoUsers
    /\ clock = 0
    /\ reqs = [s \in Slots |-> Idle]
    /\ tasks = {}
    /\ issued = {}
    /\ resp = NoResp
    /\ rotated = {}
    /\ \E b1 \in BirthdayDates, b2 \in {Date(1990, 6, 30), NoDate} :
          contacts = {BirthdayContact(1, b1, 1), BirthdayContact(2, b2, 2)}
    /\ next_id = 3
    /\ history = NoHistory

BirthdayNext ==
    \/ \E today \in Todays, u \in UserIds : read_birthdays(today, u)
    \/ \E start_date \in WindowDates, end_date \in WindowDates, u \in UserIds :
          call_get_birthdays(start_date, end_date, u)

BirthdaySpec == BirthdayInit /\ [][BirthdayNext]_vars

----------------------------------------------------------------------------
(* Properties of the refresh-token rotation *)

StoredToken(email) == get_user_by_email(email).refresh_token

\* C1: a refresh request whose token verifies as a refresh token but differs
\* from the stored token the handler read ends 401, returns no token, and
\* leaves the user's stored refresh token null.
C1_MismatchRevokes ==
    (resp.op = "refresh" /\ resp.presented # None /\ resp.presented # resp.snap)
        => /\ resp.status = 401
           /\ resp.access = None
           /\ resp.refresh = None
           /\ StoredToken(resp.email) = None

\* a live token of the user is revoked by a request that presented another one
C1_Witness ==
    /\ resp.op = "refresh"
    /\ resp.status = 401
    /\ resp.presented # None
    /\ resp.snap # None
    /\ resp.presented # resp.snap
    /\ StoredToken(resp.email) = None

\* C2: a refresh request that presents a token with which an earlier refresh
\* request has already succeeded is rejected with 401 and the stored token is
\* cleared.
C2_RotatedTokenRejected ==
    (resp.op = "refresh" /\ resp.late)
        => (resp.status = 401 /\ StoredToken(resp.email) = None)

\* C3: of two refresh requests in flight that read and presented the same
\* stored token, at most one succeeds.
C3_AtMostOneSucceeds ==
    ~(resp.op = "refresh" /\ resp.status = 200 /\ resp.peer)

\* C4: the only refresh token a refresh request is accepted with is the one
\* stored for the user (the most recently issued one) at the time it is
\* accepted.
C4_OnlyStoredTokenAccepted ==
    [][(resp'.op = "refresh" /\ resp'.status = 200)
          => resp'.presented = StoredToken(resp'.email)]_vars

----------------------------------------------------------------------------
(* Properties of login, signup and e-mail confirmation *)

Registered(email) == \E i \in DOMAIN users : users[i].email = email

\* C7: a login for an e-mail of no user, of a user who is not confirmed, or
\* with a password that does not verify, ends 401, returns no token and
\* leaves the users table (the stored refresh tokens with it) and the set of
\* issued tokens unchanged.
C7_LoginFailureIsInert ==
    [][\A e \in Emails, p \in Passwords :
          (/\ login(e, p)
           /\ LET user == get_user_by_email(e)
              IN \/ user.id = 0
                 \/ ~user.confirmed
                 \/ user.password # get_password_hash(p))
          => /\ resp'.op = "login"
             /\ resp'.status = 401
             /\ resp'.access = None
             /\ resp'.refresh = None
             /\ users' = users
             /\ issued' = issued]_vars

\* a wrong password for a confirmed user who holds a session
C7_Witness ==
    /\ resp.op = "login"
    /\ resp.status = 401
    /\ resp.detail = "Invalid password"
    /\ StoredToken(resp.email) # None

UniqueEmails ==
    \A i, j \in DOMAIN users : i # j => users[i].email # users[j].email

\* C8: no two rows of users share an e-mail, whatever the interleaving of the
\* signup requests; a signup that finds its e-mail registered ends 409; and
\* no signup step for a registered e-mail adds a row, changes a row or
\* schedules an e-mail.
C8_SignupConflict ==
    /\ []UniqueEmails
    /\ [][/\ \A s \in Slots, u \in Usernames, e \in Emails, p \in SignupPasswords :
               (signup_read(s, u, e, p) /\ Registered(e))
                  => (resp'.op = "signup" /\ resp'.status = 409)
          /\ (resp'.op = "signup" /\ Registered(resp'.email))
                  => /\ resp'.status # 201
                     /\ users' = users
                     /\ tasks' = tasks]_vars

\* a signup for the e-mail of an existing user has been answered 409
C8_Witness ==
    /\ resp.op = "signup"
    /\ resp.status = 409
    /\ Registered(resp.email)
    /\ UniqueEmails

\* C9: a row of users is created with confirmed false, and no step takes a
\* row whose confirmed flag is true to a state where it is false or absent.
C9_ConfirmedIsOneWay ==
    [][/\ \A i \in DOMAIN users :
             users[i].confirmed => (i \in DOMAIN users' /\ users'[i].confirmed)
       /\ \A i \in DOMAIN users' \ DOMAIN users : ~users'[i].confirmed]_vars

\* a confirmed user whose session has since been revoked by a refresh request
C9_Witness ==
    /\ resp.op = "refresh"
    /\ resp.status = 401
    /\ resp.snap # None
    /\ get_user_by_email(resp.email).confirmed

\* C10: confirming with a valid confirmation token of a user who is already
\* confirmed answers 200 "Your email is already confirmed" and changes no
\* row of users.
C10_ConfirmIsIdempotent ==
    [][(/\ resp'.op = "confirm"
        /\ resp'.status \notin {422, 400}
        /\ get_user_by_email(resp'.email).confirmed)
          => /\ resp' = Response("confirm", 200, "Your email is already confirmed",
                                 resp'.email)
             /\ users' = users]_vars

\* the second confirmation of a user has been answered
C10_Witness ==
    /\ resp.op = "confirm"
    /\ resp.status = 200
    /\ resp.detail = "Your email is already confirmed"
    /\ get_user_by_email(resp.email).confirmed

\* C11: a request for a confirmation e-mail for an address of no user is
\* answered 200 with the message an unconfirmed user gets, "Check your email
\* for confirmation.", and schedules no e-mail.
C11_UnknownEmailGenericSuccess ==
    [][\A e \in Emails :
          (request_email(e) /\ ~Registered(e))
             => /\ resp' = Response("request_email", 200,
                                    "Check your email for confirmation.", e)
                /\ tasks' = tasks]_vars

\* C19: every user with a stored refresh token is confirmed, every refresh
\* token ever issued has a confirmed user as its subject, and every answer
\* that carries an access or refresh token is for a confirmed user.
C19_TokensOnlyForConfirmed ==
    /\ \A i \in DOMAIN users :
          users[i].refresh_token # None => users[i].confirmed
    /\ \A t \in issued :
          t.scope = "refresh_token" => get_user_by_email(t.sub).confirmed
    /\ (resp.op \in {"login", "refresh"}
          /\ (resp.access # None \/ resp.refresh # None))
          => get_user_by_email(resp.email).confirmed

\* a user who is not confirmed has been refused a login with the right
\* password while another user holds a session
C19_Witness ==
    /\ resp.op = "login"
    /\ resp.status = 401
    /\ resp.detail = "Email not confirmed"
    /\ get_user_by_email(resp.email).refresh_token = None
    /\ \E i \in DOMAIN users :
          users[i].confirmed /\ users[i].refresh_token # None

\* C20: a refresh request that presents a token superseded by a later login
\* or refresh of its user (and still unexpired) is answered 401 and leaves
\* the stored token null; and a later refresh request that presents the
\* token that was stored when that happened is answered 401 too, as long as
\* the user has not logged in again.
C20_SupersededTokenLogsOut ==
    resp.op = "refresh"
        => /\ resp.sup => (resp.status = 401 /\ StoredToken(resp.email) = None)
           /\ resp.out => resp.status = 401

\* C16: a signup answered 201 has added exactly one row to users, with the
\* e-mail of the request, confirmed false and no stored refresh token, has
\* changed no other row, and has queued exactly one send for that e-mail;
\* the answer is given with the send still queued (no confirmation token has
\* been made yet).
C16_SignupCreatesPendingUser ==
    [][(resp'.op = "signup" /\ resp'.status = 201)
          => /\ Len(users') = Len(users) + 1
             /\ SubSeq(users', 1, Len(users)) = users
             /\ LET new_user == users'[Len(users')]
                IN /\ new_user.email = resp'.email
                   /\ ~new_user.confirmed
                   /\ new_user.refresh_token = None
                   /\ ~Registered(new_user.email)
                   /\ \E t \in tasks' :
                         /\ t.email = new_user.email
                         /\ t \notin tasks
                         /\ tasks' = tasks \cup {t}
             /\ issued' = issued]_vars

\* the signup has been answered while its e-mail is still to be sent
C16_Witness ==
    /\ resp.op = "signup"
    /\ resp.status = 201
    /\ \E t \in tasks : t.email = resp.email
    /\ ~get_user_by_email(resp.email).confirmed
    /\ Len(users) = 2

\* C17: a run of send_email that fails, whatever the exception, ends with the
\* exception caught and printed (none leaves the task), and changes neither
\* the users table nor a request in flight.
C17_EmailFailureIsCaught ==
    [][\A t \in tasks, o \in SendOutcomes :
          (send_email(t, o) /\ o # "sent")
             => /\ resp'.detail = "logged"
                /\ users' = users
                /\ reqs' = reqs]_vars

----------------------------------------------------------------------------
(* Properties of the contact repository *)

Exists(contact_id) == \E c \in contacts : c.id = contact_id
Owned(contact_id, user) == \E c \in contacts : c.id = contact_id /\ user \in c.users

\* C5: no contact returned by get_contact, get_contacts or get_birthdays was
\* created by a user other than the caller.
C5_ContactVisibility ==
    (resp.op \in {"get_contact", "get_contacts", "get_birthdays"})
        => \A c \in contacts : c.id \in resp.result => c.creator = resp.user

\* a search returned the caller's contact while another user's contact exists
C5_Witness ==
    /\ resp.op = "get_contacts"
    /\ resp.result # {}
    /\ \E c \in contacts : c.creator # resp.user /\ c.id \notin resp.result

\* C6: update_contact and delete_contact for a contact the caller does not
\* own answer 404 with no entity, as they do for an id that does not exist,
\* and leave the contacts table unchanged.  (update_contact is reached by
\* the bodies that parse as a ContactUpdate.)
C6_NotOwnedIsNotFound ==
    [][/\ (resp'.op = "delete_contact" /\ ~Owned(resp'.contact_id, resp'.user))
          => /\ resp' = CResponse(resp'.op, resp'.user, resp'.contact_id, 404, {})
             /\ contacts' = contacts
       /\ (resp'.op = "update_contact" /\ ~Owned(resp'.contact_id, resp'.user))
          => \A body \in ContactBodies, supplied \in SuppliedSets :
                (/\ update_contact(resp'.contact_id, body, supplied, resp'.user)
                 /\ validates(supplied))
                   => /\ resp' = CResponse("update_contact", resp'.user,
                                           resp'.contact_id, 404, {})
                      /\ contacts' = contacts]_vars

\* an update of another user's existing contact has been answered 404
C6_Witness ==
    /\ resp.op = "update_contact"
    /\ resp.status = 404
    /\ Exists(resp.contact_id)
    /\ ~Owned(resp.contact_id, resp.user)

\* C12: an update by an owner overwrites exactly the fields the body sets
\* with the body's values, leaves every other field and the owner set as
\* they were, and changes no other contact; so does an update that sets
\* phone alone.
C12_PartialUpdate ==
    [][\A id \in ContactIds, body \in ContactBodies,
          supplied \in SuppliedSets, u \in UserIds :
          (update_contact(id, body, supplied, u) /\ Owned(id, u))
             => LET old == get_contact(id, u)
                IN \E new \in contacts' :
                      /\ new.id = id
                      /\ \A f \in FieldNames :
                            new[f] = IF f \in supplied THEN body[f] ELSE old[f]
                      /\ new.users = old.users
                      /\ contacts' \ {new} = contacts \ {old}]_vars

\* the ids that were given to a contact that is no longer in the table
Deleted == {id \in 1..(next_id - 1) : ~Exists(id)}

C14_ExactMatchSearch ==
    \A n \in NameFilters, sn \in SurnameFilters, e \in EmailFilters,
       ph \in PhoneFilters, b \in BirthdayFilters, u \in UserIds :
       get_contacts(n, sn, e, ph, b, u) =
          {c \in contacts :
              /\ u \in c.users
              /\ (n # "None" => c.name = n)
              /\ (sn # "None" => c.surname = sn)
              /\ (e # "None" => c.email = e)
              /\ (ph # "None" => c.phone = ph)
              /\ (b # NoDate => c.birthday = b)}

----------------------------------------------------------------------------
(* Properties of the birthday window *)

\* the two-branch rule on the month and the day of a birthday
WindowRule(month, day, start_date, end_date) ==
    IF end_date.day > start_date.day
    THEN month = start_date.month /\ start_date.day <= day /\ day <= end_date.day
    ELSE \/ (month = start_date.month /\ day >= start_date.day)
         \/ (month = end_date.month /\ day <= end_date.day)

\* C15: for every start date, end date and caller, get_birthdays returns a
\* contact iff the caller owns it, it has a birthday, and the month and day
\* of the birthday satisfy the two-branch rule (both bounds inclusive); the
\* year of birth plays no part.
C15_BirthdayWindowRule ==
    resp.op = "get_birthdays"
        => resp.result =
             {c.id : c \in {x \in contacts :
                               /\ resp.user \in x.users
                               /\ x.birthday # NoDate
                               /\ WindowRule(x.birthday.month, x.birthday.day,
                                             resp.start_date, resp.end_date)}}

\* a window over a month end returned a contact born on the day and month
\* of its last day, in another year
C15_Witness ==
    /\ resp.op = "get_birthdays"
    /\ resp.end_date.day <= resp.start_date.day
    /\ \E c \in contacts :
          /\ c.id \in resp.result
          /\ c.birthday.month = resp.end_date.month
          /\ c.birthday.day = resp.end_date.day
          /\ c.birthday.year # resp.end_date.year

\* the month and day of a birthday are those of a date of the window
InCalendarWindow(birthday, start_date) ==
    \E k \in 0..WindowDays :
        LET d == AddDays(start_date, k)
        IN d.month = birthday.month /\ d.day = birthday.day

\* C18: called by the route (end = start + 7 days), get_birthdays returns
\* exactly the caller's contacts whose birthday has the month and day of a
\* calendar date between start and end; and end.day > start.day exactly when
\* start and end are in the same month.
C18_CalendarWindow ==
    (resp.op = "get_birthdays"
        /\ resp.end_date = AddDays(resp.start_date, WindowDays))
        => /\ resp.result =
                {c.id : c \in {x \in contacts :
                                  /\ resp.user \in x.users
                                  /\ x.birthday # NoDate
                                  /\ InCalendarWindow(x.birthday, resp.start_date)}}
           /\ (resp.end_date.day > resp.start_date.day)
                 <=> (resp.end_date.month = resp.start_date.month)

----------------------------------------------------------------------------
(* GET /auth/refresh_token with a token that does not verify *)

\* the token verifies as a refresh token at time `now`
Verifies(token, now) == decode_refresh_token(token, now) # ""

\* the step wipes the stored refresh token of some user
Revokes ==
    \E i \in DOMAIN users :
        /\ users[i].refresh_token # None
        /\ users'[i].refresh_token = None

\* C21: a refresh request whose token fails verification (malformed, badly
\* signed, expired, or of another kind such as an access token) is answered
\* 401 before any user is looked up: no request goes on to the comparison and
\* every user's stored refresh token is unchanged.  The stored token of a user
\* is wiped only by a refresh request whose token verified as a refresh token
\* and differed from the stored token the request loaded.
C21_UnverifiedRefreshChangesNothing ==
    [][/\ \A s \in Slots, token \in Presentable :
             (/\ ~Verifies(token, clock)
              /\ refresh_token_read(s, token))
                => /\ resp'.op = "refresh"
                   /\ resp'.status = 401
                   /\ resp'.detail = "Could not validate credentials"
                   /\ reqs' = reqs
                   /\ users' = users
       /\ Revokes
             => /\ resp'.op = "refresh"
                /\ resp'.status = 401
                /\ resp'.detail = "Invalid refresh token"
                /\ \E now \in 0..clock : Verifies(resp'.presented, now)
                /\ resp'.presented # resp'.snap]_vars

\* an access token that has not expired, of a user who holds a stored refresh
\* token, has been presented and refused, and the stored token is still there
C21_Witness ==
    /\ resp.op = "refresh"
    /\ resp.status = 401
    /\ resp.detail = "Could not validate credentials"
    /\ resp.presented.scope = "access_token"
    /\ resp.presented.sig
    /\ clock < resp.presented.iat + AccessLifetime
    /\ get_user_by_email(resp.presented.sub).refresh_token # None

====
